---- MODULE Spec2Model ----
(***************************************************************************)
(* The data pipeline of WaveTransfer (src/bddm/data_loader.py):            *)
(*   - NumpyDataset.__init__   the Pair Indexer        (SpecIndex)         *)
(*   - NumpyDataset.__getitem__ and Collator.collate   (Spec)              *)
(*   - from_path / from_path_valid with DistributedSampler (SpecDist)      *)
(*                                                                         *)
(* A waveform is a sequence of samples <<src, idx>>: sample idx (0-based)  *)
(* of decoded file src (1 = content source, 2 = timbre target); <<0, 0>>   *)
(* is a zero of the trailing padding.  Amplitudes are not part of the      *)
(* state.  A mel-spectrogram is its shape, a sequence of dimensions, and   *)
(* <<>> when absent (Python None).  A file name is a sequence of           *)
(* one-character strings.                                                  *)
(***************************************************************************)
EXTENDS Integers, Sequences, FiniteSets, TLC

VARIABLES
  \* ---- Example Transform and Batch Collator
  pc,            \* "fetch" | "done" | "failed"
  params,        \* [sample_rate, hop_samples, crop_mel_frames]
  crop_mel,      \* the crop_mel override of the dataset and its collator (None or frames)
  batch_size,    \* DataLoader batch_size
  minibatch,     \* the list of records handed to collate (mutated in place by it)
  fetched,       \* history: what __getitem__ returned, with the decoded length
  outcome,       \* "pending" | "None" | "batch" | "RuntimeError"
  batch,         \* the stacked fields when outcome = "batch"
  loaded,        \* history: what torchaudio.load returned in the latest access
  err,           \* "none" | "ValueError" | "AssertionError"
  err_args,      \* the values the error message names
  \* ---- Pair Indexer
  paths,         \* the directories given to NumpyDataset
  files,         \* the list files given (their contents); <<>> when none
  disk,          \* the audio files under a directory, in the order glob returns them
  train_mixtures,\* params.train_mixtures
  filenames,     \* self.filenames
  built,         \* "no" | "yes" | "AssertionError"
  \* ---- distributed pipelines
  dataset_len,   \* len(dataset)
  num_replicas,  \* the number of participant processes
  sampler_indices, \* the shuffled index list of the pass, the same in every participant
  loader,        \* [batch_size, drop_last] of the DataLoader
  pos,           \* per rank: how far its DataLoader has read its shard
  delivered      \* per rank: the dataset indices handed to it so far

plvars == <<pc, params, crop_mel, batch_size, minibatch, fetched, loaded, outcome, batch, err, err_args>>

ixvars == <<paths, files, disk, train_mixtures, filenames, built>>

dsvars == <<dataset_len, num_replicas, sampler_indices, loader, pos, delivered>>

vars == <<plvars, ixvars, dsvars>>

\* ------------------------------------------------------------------ bounds
MaxLen == 4          \* longest decoded waveform, in samples
Hop == 2             \* params.hop_samples
MaxCropFrames == 2   \* largest crop length, in frames
MaxBatch == 2        \* largest DataLoader batch_size
NMels == 2           \* mel bins of the spectrogram extractor
MaxFiles == 3        \* most audio files under a directory
MaxChars == 3        \* longest list file, in characters
MaxDataset == 4      \* largest len(dataset) of a distributed run
MaxReplicas == 3     \* most participant processes

None == -1
Rates == {16000, 22050}
Channels == {1, 2}

\* ------------------------------------------------------------------ helpers
Min(a, b) == IF a < b THEN a ELSE b
Max(a, b) == IF a > b THEN a ELSE b

\* Python s[a:b] on a sequence (0-based, negative indices count from the end).
PySlice(s, a, b) ==
  LET n  == Len(s)
      lo == IF a < 0 THEN Max(a + n, 0) ELSE Min(a, n)
      hi == IF b < 0 THEN Max(b + n, 0) ELSE Min(b, n)
  IN  IF hi <= lo THEN <<>> ELSE SubSeq(s, lo + 1, hi)

\* The waveform decoded from file src, n samples long.
Wave(src, n) == [k \in 1..n |-> <<src, k - 1>>]

\* torch.zeros(n)
Zeros(n) == [k \in 1..n |-> <<0, 0>>]

\* tensor.squeeze(0) and tensor.T on a shape
Squeeze0(shape) == IF Len(shape) > 0 /\ shape[1] = 1 THEN Tail(shape) ELSE shape
Transpose(shape) == [k \in 1..Len(shape) |-> shape[Len(shape) + 1 - k]]

\* ------------------------------------------------------------------ Example Transform
\* crop_mel = self.crop_mel if self.crop_mel else self.params.crop_mel_frames
ActiveCropMel(override, p) ==
  IF override # None /\ override # 0 THEN override ELSE p.crop_mel_frames

\* if (self.params.sample_rate != sr1) or (self.params.sample_rate != sr2)
InvalidRate(p, sr1, sr2) == (p.sample_rate # sr1) \/ (p.sample_rate # sr2)

\* the two assertions on the decoded shapes <<channels, samples>>
ShapesOk(shape1, shape2) ==
  /\ shape1 = shape2
  /\ shape1[1] = 1 /\ shape2[1] = 1

\* The order reversed: the assertions evaluated before the sample-rate test.
Validate_AssertFirst(p, sr1, sr2, shape1, shape2) ==
  IF ~ShapesOk(shape1, shape2) THEN "AssertionError"
  ELSE IF InvalidRate(p, sr1, sr2) THEN "ValueError"
  ELSE "ok"

\* The validation of __getitem__, in the order of the code: the sample-rate
\* test raises before the assertions are evaluated.
Validate(p, sr1, sr2, shape1, shape2) ==
  IF InvalidRate(p, sr1, sr2) THEN "ValueError"
  ELSE IF ~ShapesOk(shape1, shape2) THEN "AssertionError"
  ELSE "ok"

\* (crop_mel - 1) * self.params.hop_samples
CropLen(cm, p) == (cm - 1) * p.hop_samples

\* The upper end of the draw off by crop_len: a window may run past the end.
Starts_PastEnd(n, cl) == 0..n

\* random.randint(0, n - crop_len): both ends included
Starts(n, cl) == 0..(n - cl)

\* The slice forgotten: the waveform is returned whole.
Crop_Whole(signal, start, cl) == signal

\* signal[start:end] with end = start + crop_len
Crop(signal, start, cl) == PySlice(signal, start, start + cl)

\* The mel extractor on a waveform of n samples: [1, mel-bins, time-frames], one
\* frame per hop plus one (the frame the trailing hop of padding accounts for).
get_spec(n, p) == <<1, NMels, (n \div p.hop_samples) + 1>>

\* try: spectrogram = get_spec(...)  except Exception: spectrogram = None
TrySpec(n, p, raises) == IF raises THEN <<>> ELSE get_spec(n, p)

\* The padding applied to the timbre-target waveform only.
Record_PadOne(signal1, signal2, spectrogram, p) ==
  [audio           |-> signal2 \o Zeros(p.hop_samples),
   spectrogram     |-> IF spectrogram # <<>> THEN Transpose(Squeeze0(spectrogram)) ELSE <<>>,
   audio_cond_inst |-> signal1]

\* the returned dict
Record(signal1, signal2, spectrogram, p) ==
  [audio           |-> signal2 \o Zeros(p.hop_samples),
   spectrogram     |-> IF spectrogram # <<>> THEN Transpose(Squeeze0(spectrogram)) ELSE <<>>,
   audio_cond_inst |-> signal1 \o Zeros(p.hop_samples)]

\* __getitem__ past the validation: n decoded samples, the drawn start, whether
\* the extractor raises.
Transform(n, start, raises, cm, p) ==
  LET cl == CropLen(cm, p)
      s1 == IF n >= cl THEN Crop(Wave(1, n), start, cl) ELSE Wave(1, n)
      s2 == IF n >= cl THEN Crop(Wave(2, n), start, cl) ELSE Wave(2, n)
  IN  Record(s1, s2, TrySpec(Len(s1), p, raises), p)

\* The error that leaves __getitem__: the pipeline stops, nothing is appended.
Raise(type, args) ==
  /\ err' = type
  /\ err_args' = args
  /\ pc' = "failed"
  /\ UNCHANGED <<minibatch, fetched>>

\* The sample counts the second file may decode to, given the first's.
OtherLens(n1) == {n1, MaxLen - n1}

\* One dataset access of a worker: the two files decode to sample rates sr1, sr2
\* and shapes <<channels, samples>>.
getitem ==
  /\ pc = "fetch"
  /\ Len(minibatch) < batch_size
  /\ \E sr1 \in Rates, sr2 \in Rates, ch1 \in Channels, ch2 \in Channels, n1 \in 0..MaxLen :
     \E n2 \in OtherLens(n1) :
       LET v  == Validate(params, sr1, sr2, <<ch1, n1>>, <<ch2, n2>>)
           cm == ActiveCropMel(crop_mel, params)
           cl == CropLen(cm, params)
       IN  /\ loaded' = [sr1 |-> sr1, sr2 |-> sr2, shape1 |-> <<ch1, n1>>, shape2 |-> <<ch2, n2>>]
           /\ IF v = "ValueError"
              THEN Raise("ValueError", <<sr1, sr2, params.sample_rate>>)
              ELSE IF v = "AssertionError"
              THEN Raise("AssertionError", <<>>)
              ELSE \E start \in (IF n1 >= cl THEN Starts(n1, cl) ELSE {0}), raises \in BOOLEAN :
                     LET rec == Transform(n1, start, raises, cm, params)
                     IN  /\ minibatch' = Append(minibatch, rec)
                         /\ fetched' = Append(fetched, [n |-> n1, raised |-> raises, rec |-> rec])
                         /\ UNCHANGED <<pc, err, err_args>>
  /\ UNCHANGED <<params, crop_mel, batch_size, outcome, batch>>
  /\ UNCHANGED <<ixvars, dsvars>>

\* ------------------------------------------------------------------ Batch Collator
\* len(tensor): the leading dimension
PyLen(shape) == shape[1]

\* The test for an absent spectrogram left out of the filter.
Excluded_NoNoneCheck(record, cm) ==
  /\ record["spectrogram"] # <<>>
  /\ PyLen(record["spectrogram"]) < cm

\* (record['spectrogram'] is None) or (len(record['spectrogram']) < crop_mel)
Excluded(record, cm) ==
  \/ record["spectrogram"] = <<>>
  \/ PyLen(record["spectrogram"]) < cm

\* del record[k]
Del(record, k) == [x \in (DOMAIN record) \ {k} |-> record[x]]

\* Only the spectrogram deleted from an excluded record.
Drop_SpectrogramOnly(record) == Del(record, "spectrogram")

\* the three del statements of an excluded record
Drop(record) == Del(Del(Del(record, "spectrogram"), "audio"), "audio_cond_inst")

\* the loop over the minibatch
Filter(mb, cm) ==
  [i \in 1..Len(mb) |->
     IF Excluded(mb[i], cm)
     THEN Drop(mb[i])
     ELSE [mb[i] EXCEPT !["spectrogram"] = Transpose(@)]]

\* any() in place of all()
AllEmpty_Any(mb) == \E i \in 1..Len(mb) : DOMAIN mb[i] = {}

\* all(not record for record in minibatch)
AllEmpty(mb) == \A i \in 1..Len(mb) : DOMAIN mb[i] = {}

\* [record[k] for record in minibatch if k in record]
RECURSIVE Field(_, _)
Field(mb, k) ==
  IF mb = <<>> THEN <<>>
  ELSE (IF k \in DOMAIN Head(mb) THEN <<Head(mb)[k]>> ELSE <<>>) \o Field(Tail(mb), k)

\* the shapes of a list of 1-D waveform tensors, and of a list of spectrograms
WaveShapes(ts) == [i \in 1..Len(ts) |-> <<Len(ts[i])>>]
SpecShapes(ts) == ts

\* torch.stack accepts a non-empty list of tensors of one shape
Stackable(shapes) ==
  /\ shapes # <<>>
  /\ \A i \in 1..Len(shapes) : shapes[i] = shapes[1]

NoBatch == [audio |-> <<>>, spectrogram |-> <<>>, audio_cond_inst |-> <<>>]

collate ==
  /\ pc = "fetch"
  /\ Len(minibatch) = batch_size
  /\ LET cm  == ActiveCropMel(crop_mel, params)
         mb  == Filter(minibatch, cm)
         a   == Field(mb, "audio")
         c   == Field(mb, "audio_cond_inst")
         s   == Field(mb, "spectrogram")
     IN  /\ minibatch' = mb
         /\ IF AllEmpty(mb)
            THEN outcome' = "None" /\ batch' = NoBatch
            ELSE IF Stackable(WaveShapes(a)) /\ Stackable(WaveShapes(c)) /\ Stackable(SpecShapes(s))
            THEN /\ outcome' = "batch"
                 /\ batch' = [audio |-> a, spectrogram |-> s, audio_cond_inst |-> c]
            ELSE outcome' = "RuntimeError" /\ batch' = NoBatch
  /\ pc' = "done"
  /\ UNCHANGED <<params, crop_mel, batch_size, fetched, loaded, err, err_args>>
  /\ UNCHANGED <<ixvars, dsvars>>

\* ------------------------------------------------------------------ Pipeline Factory
\* from_path: NumpyDataset(..., params) and Collator(params), batch_size from the caller
from_path ==
  /\ crop_mel = None
  /\ batch_size \in 1..MaxBatch

\* from_path_valid: NumpyDataset(..., params, crop_mel) and Collator(params, crop_mel), batch_size=1
from_path_valid ==
  /\ crop_mel \in {None} \cup (1..MaxCropFrames)
  /\ batch_size = 1

\* the pipeline as from_path or from_path_valid returns it
InitPipeline ==
  /\ params \in [sample_rate : Rates, hop_samples : {Hop}, crop_mel_frames : 1..MaxCropFrames]
  /\ (from_path \/ from_path_valid)
  /\ pc = "fetch"
  /\ minibatch = <<>>
  /\ fetched = <<>>
  /\ loaded = <<>>
  /\ outcome = "pending"
  /\ batch = NoBatch
  /\ err = "none"
  /\ err_args = <<>>

\* the pipeline not running
IdlePipeline ==
  /\ params = [sample_rate |-> 16000, hop_samples |-> Hop, crop_mel_frames |-> 1]
  /\ crop_mel = None
  /\ batch_size = 1
  /\ pc = "idle"
  /\ minibatch = <<>>
  /\ fetched = <<>>
  /\ loaded = <<>>
  /\ outcome = "pending"
  /\ batch = NoBatch
  /\ err = "none"
  /\ err_args = <<>>

\* ------------------------------------------------------------------ Pair Indexer
\* indices = [(0, 3), (3, 0)] if params.train_mixtures else [... six pairs]
Indices(tm) ==
  IF tm THEN << <<0, 3>>, <<3, 0>> >>
  ELSE << <<0, 3>>, <<3, 0>>, <<1, 4>>, <<4, 1>>, <<2, 5>>, <<5, 2>> >>

Digits == <<"0", "1", "2", "3", "4", "5", "6", "7", "8", "9">>

\* f'{i}': the decimal digits of a natural number
RECURSIVE Str(_)
Str(i) == IF i < 10 THEN <<Digits[i + 1]>> ELSE Str(i \div 10) \o <<Digits[(i % 10) + 1]>>

\* f'{base}.{i}.wav'
WavName(base, i) == base \o <<".">> \o Str(i) \o <<".", "w", "a", "v">>

\* glob(f'{path}/**/*.wav'): the files <stem>.<tag>.wav found under path
Glob(path, listing) ==
  [k \in 1..Len(listing) |-> path \o <<"/">> \o WavName(listing[k].stem, listing[k].tag)]

\* for path in paths: filenames += glob(...)
RECURSIVE GlobAll(_, _)
GlobAll(ps, listing) ==
  IF ps = <<>> THEN <<>> ELSE Glob(Head(ps), listing) \o GlobAll(Tail(ps), listing)

\* base_filename = x[:-6]
BaseFilename(x) == PySlice(x, 0, -6)

\* [(f'{base}.{i}.wav', f'{base}.{j}.wav') for i, j in indices]
ScanPairs(base, ind) ==
  [k \in 1..Len(ind) |-> <<WavName(base, ind[k][1]), WavName(base, ind[k][2])>>]

\* The test on seen left out: every discovered file expands.
RECURSIVE Scan_NoDedup(_, _, _)
Scan_NoDedup(names, seen, ind) ==
  IF names = <<>> THEN <<>>
  ELSE ScanPairs(BaseFilename(Head(names)), ind) \o Scan_NoDedup(Tail(names), seen, ind)

\* the loop over the discovered files with the set seen
RECURSIVE Scan(_, _, _)
Scan(names, seen, ind) ==
  IF names = <<>> THEN <<>>
  ELSE LET base == BaseFilename(Head(names))
       IN  IF base \notin seen
           THEN ScanPairs(base, ind) \o Scan(Tail(names), seen \cup {base}, ind)
           ELSE Scan(Tail(names), seen, ind)

\* str.split('\n')
RECURSIVE SplitLines(_, _)
SplitLines(text, line) ==
  IF text = <<>> THEN <<line>>
  ELSE IF Head(text) = "\n" THEN <<line>> \o SplitLines(Tail(text), <<>>)
  ELSE SplitLines(Tail(text), Append(line, Head(text)))

\* os.path.join(a, b)
OsPathJoin(a, b) ==
  IF b # <<>> /\ b[1] = "/" THEN b
  ELSE IF a = <<>> \/ a[Len(a)] = "/" THEN a \o b
  ELSE a \o <<"/">> \o b

\* [(os.path.join(path, x + f'.{i}.wav'), os.path.join(path, x + f'.{j}.wav')) for i, j in indices]
ListPairs(path, x, ind) ==
  [k \in 1..Len(ind) |->
     <<OsPathJoin(path, WavName(x, ind[k][1])), OsPathJoin(path, WavName(x, ind[k][2]))>>]

\* for x in fi.read().split('\n'): if len(x) > 0: ...
RECURSIVE ListLines(_, _, _)
ListLines(path, lines, ind) ==
  IF lines = <<>> THEN <<>>
  ELSE (IF Len(Head(lines)) > 0 THEN ListPairs(path, Head(lines), ind) ELSE <<>>)
         \o ListLines(path, Tail(lines), ind)

\* for path, f in zip(paths, files): zip stops at the shorter list
RECURSIVE ListExpand(_, _, _)
ListExpand(ps, fs, ind) ==
  IF ps = <<>> \/ fs = <<>> THEN <<>>
  ELSE ListLines(Head(ps), SplitLines(Head(fs), <<>>), ind) \o ListExpand(Tail(ps), Tail(fs), ind)

\* The assertion left out: the two lists are zipped whatever their lengths.
LengthsAgree_Unchecked(fs, ps) == TRUE

\* assert len(files) == len(paths)
LengthsAgree(fs, ps) == Len(fs) = Len(ps)

\* NumpyDataset.__init__
NumpyDataset_init ==
  /\ built = "no"
  /\ LET indices == Indices(train_mixtures)
     IN  IF files = <<>>
         THEN /\ filenames' = Scan(GlobAll(paths, disk), {}, indices)
              /\ built' = "yes"
         ELSE IF ~LengthsAgree(files, paths)
         THEN /\ built' = "AssertionError"
              /\ UNCHANGED filenames
         ELSE /\ filenames' = ListExpand(paths, files, indices)
              /\ built' = "yes"
  /\ UNCHANGED <<paths, files, disk, train_mixtures>>
  /\ UNCHANGED <<plvars, dsvars>>

\* the sequences over S of length lo..hi
SeqsBetween(S, lo, hi) == UNION {[1..n -> S] : n \in lo..hi}

Dirs == {<<"p">>, <<"q">>}
PathLists == SeqsBetween(Dirs, 1, 2)
Stems == {<<"a">>, <<"b", "a">>}
DiskTags == {0, 1, 5}
Listings == SeqsBetween([stem : Stems, tag : DiskTags], 0, MaxFiles)
ListFiles == SeqsBetween({"a", "\n"}, 0, MaxChars)

\* the arguments of NumpyDataset: directories to scan, or directories with list files
InitIndex ==
  /\ paths \in PathLists
  /\ train_mixtures \in BOOLEAN
  /\ \/ files = <<>> /\ disk \in Listings
     \/ files \in SeqsBetween(ListFiles, 1, 2) /\ disk = <<>>
  /\ filenames = <<>>
  /\ built = "no"

\* no dataset under construction
IdleIndex ==
  /\ paths = <<>>
  /\ files = <<>>
  /\ disk = <<>>
  /\ train_mixtures = FALSE
  /\ filenames = <<>>
  /\ built = "idle"

\* ------------------------------------------------------------------ distributed pipelines
\* math.ceil(len(dataset) / num_replicas)
NumSamples(n, r) == (n + r - 1) \div r

\* total_size = num_samples * num_replicas
TotalSize(n, r) == NumSamples(n, r) * r

\* list * times
RECURSIVE Repeat(_, _)
Repeat(ix, times) == IF times <= 0 THEN <<>> ELSE ix \o Repeat(ix, times - 1)

\* DistributedSampler.__iter__ with drop_last=False: the index list padded to
\* total_size with its own leading indices
Padded(ix, total) ==
  LET padding == total - Len(ix)
  IN  IF padding <= Len(ix)
      THEN ix \o PySlice(ix, 0, padding)
      ELSE ix \o PySlice(Repeat(ix, (padding + Len(ix) - 1) \div Len(ix)), 0, padding)

\* No sampler in a distributed run: every participant reads the whole list.
Shard_Whole(ix, rank, total, r) == ix

\* indices[rank:total_size:num_replicas]
Shard(ix, rank, total, r) ==
  [k \in 1..Cardinality({j \in 0..(Min(total, Len(ix)) - 1) : j >= rank /\ (j - rank) % r = 0}) |->
     ix[rank + (k - 1) * r + 1]]

\* the sampler=DistributedSampler(dataset) of participant rank
DistributedSampler(ix, rank, r) ==
  Shard(Padded(ix, TotalSize(Len(ix), r)), rank, TotalSize(Len(ix), r), r)

\* One step of the DataLoader of participant rank: the next batch of indices of
\* its sampler; a partial final batch is discarded under drop_last.
next_batch(rank) ==
  LET shard == DistributedSampler(sampler_indices, rank, num_replicas)
      left  == Len(shard) - pos[rank]
  IN  /\ left > 0
      /\ pos' = [pos EXCEPT ![rank] = Min(pos[rank] + loader.batch_size, Len(shard))]
      /\ delivered' =
           [delivered EXCEPT ![rank] =
              IF left >= loader.batch_size \/ ~loader.drop_last
              THEN @ \o SubSeq(shard, pos[rank] + 1, Min(pos[rank] + loader.batch_size, Len(shard)))
              ELSE @]
      /\ UNCHANGED <<dataset_len, num_replicas, sampler_indices, loader>>
      /\ UNCHANGED <<plvars, ixvars>>

\* torch.randperm(len(dataset)): the orders of the indices 0..n-1
Perms(n) == {f \in [1..n -> 0..(n - 1)] : \A a \in 1..n : \A b \in 1..n : f[a] = f[b] => a = b}

\* from_path(..., is_distributed=True): batch_size from the caller, drop_last=True
TrainLoaders == [batch_size : 1..MaxBatch, drop_last : {TRUE}]

\* from_path_valid(..., is_distributed=True): batch_size=1, drop_last=False
ValidLoaders == [batch_size : {1}, drop_last : {FALSE}]

InitDist ==
  /\ dataset_len \in 0..MaxDataset
  /\ num_replicas \in 1..MaxReplicas
  /\ sampler_indices \in Perms(dataset_len)
  /\ loader \in TrainLoaders \cup ValidLoaders
  /\ pos = [rank \in 0..(num_replicas - 1) |-> 0]
  /\ delivered = [rank \in 0..(num_replicas - 1) |-> <<>>]

\* no distributed run
IdleDist ==
  /\ dataset_len = 0
  /\ num_replicas = 1
  /\ sampler_indices = <<>>
  /\ loader = [batch_size |-> 1, drop_last |-> FALSE]
  /\ pos = <<>>
  /\ delivered = <<>>

\* ------------------------------------------------------------------ specifications
Init == InitPipeline /\ IdleIndex /\ IdleDist

Next == getitem \/ collate

Spec == Init /\ [][Next]_vars

NextIndex == NumpyDataset_init

IndexInit == InitIndex /\ IdlePipeline /\ IdleDist

SpecIndex == IndexInit /\ [][NextIndex]_vars

NextDist == \E rank \in DOMAIN pos : next_batch(rank)

DistInit == InitDist /\ IdlePipeline /\ IdleIndex

SpecDist == DistInit /\ [][NextDist]_vars

\* ------------------------------------------------------------------ properties of the pipeline
TheCropMel == ActiveCropMel(crop_mel, params)
TheCropLen == (TheCropMel - 1) * params.hop_samples

\* A Transformed Example survives filtering: its spectrogram is present and has
\* at least crop-length time frames.
Survives(rec) == rec.spectrogram # <<>> /\ rec.spectrogram[1] >= TheCropMel

Survivors == {i \in 1..Len(fetched) : Survives(fetched[i].rec)}

Kept == SelectSeq(fetched, LAMBDA f : Survives(f.rec))

\* C1: the result of collate is None or a batch whose three stacked fields have
\* one leading dimension, the number of examples that survived filtering.
C1_BatchDimension ==
  pc = "done" =>
    /\ outcome \in {"None", "batch"}
    /\ outcome = "batch" =>
         /\ Len(batch.audio) = Cardinality(Survivors)
         /\ Len(batch.audio_cond_inst) = Cardinality(Survivors)
         /\ Len(batch.spectrogram) = Cardinality(Survivors)

\* a batch of two examples, one of them with an absent spectrogram: dimension 1
C1_Witness ==
  /\ pc = "done" /\ outcome = "batch"
  /\ Len(fetched) = 2
  /\ \E i \in 1..2 : fetched[i].rec.spectrogram = <<>>
  /\ Len(batch.audio) = 1 /\ Len(batch.spectrogram) = 1

\* C2: collate returns None if and only if every example of the list was
\* excluded; with a survivor the result is a batch.
C2_NoneIffAllExcluded ==
  pc = "done" =>
    /\ (outcome = "None") <=> (Survivors = {})
    /\ (Survivors # {}) => (outcome = "batch")

\* None for a list of an absent and a too-short spectrogram
C2_Witness ==
  /\ pc = "done" /\ outcome = "None"
  /\ \E i \in 1..Len(fetched) : fetched[i].rec.spectrogram = <<>>
  /\ \E i \in 1..Len(fetched) :
        /\ fetched[i].rec.spectrogram # <<>>
        /\ fetched[i].rec.spectrogram[1] < TheCropMel

\* C4: an extractor failure yields a Transformed Example with the spectrogram
\* absent, and collate excludes it while the examples of the batch that pass
\* the filter are stacked, in order, and returned.
C4_FailureIsolation ==
  /\ \A i \in 1..Len(fetched) :
       fetched[i].raised =>
         /\ fetched[i].rec.spectrogram = <<>>
         /\ DOMAIN fetched[i].rec = {"audio", "spectrogram", "audio_cond_inst"}
         /\ ~Survives(fetched[i].rec)
  /\ pc = "done" =>
       /\ outcome \in {"None", "batch"}
       /\ batch.audio = [i \in 1..Len(Kept) |-> Kept[i].rec.audio]
       /\ batch.audio_cond_inst = [i \in 1..Len(Kept) |-> Kept[i].rec.audio_cond_inst]
       /\ batch.spectrogram = [i \in 1..Len(Kept) |-> Transpose(Kept[i].rec.spectrogram)]

\* the extractor raised on the first example and the second one is returned
C4_Witness ==
  /\ pc = "done" /\ outcome = "batch"
  /\ Len(fetched) = 2
  /\ fetched[1].raised /\ ~fetched[2].raised
  /\ batch.audio = <<fetched[2].rec.audio>>

C6_AlignedCrop ==
  \A i \in 1..Len(fetched) :
    LET f   == fetched[i]
        pad == [k \in 1..params.hop_samples |-> <<0, 0>>]
    IN  IF f.n >= TheCropLen
        THEN \E start \in 0..(f.n - TheCropLen) :
               /\ start + TheCropLen <= f.n
               /\ f.rec.audio = [k \in 1..TheCropLen |-> <<2, start + k - 1>>] \o pad
               /\ f.rec.audio_cond_inst = [k \in 1..TheCropLen |-> <<1, start + k - 1>>] \o pad
        ELSE /\ f.rec.audio = [k \in 1..f.n |-> <<2, k - 1>>] \o pad
             /\ f.rec.audio_cond_inst = [k \in 1..f.n |-> <<1, k - 1>>] \o pad

\* a window that starts past the first sample of a longer waveform
C6_Witness ==
  \E i \in 1..Len(fetched) :
    /\ TheCropLen >= 2
    /\ fetched[i].n > TheCropLen
    /\ fetched[i].rec.audio[1] = <<2, 1>>
    /\ fetched[i].rec.audio_cond_inst[2] = <<1, 2>>

\* C7 as stated: a present spectrogram has time-length >= 1 and both padded
\* waveforms have crop_len + hop_samples samples.
C7_PaddedLengthIsCropPlusHop ==
  \A i \in 1..Len(fetched) :
    fetched[i].rec.spectrogram # <<>> =>
      /\ fetched[i].rec.spectrogram[1] >= 1
      /\ Len(fetched[i].rec.audio) = TheCropLen + params.hop_samples
      /\ Len(fetched[i].rec.audio_cond_inst) = TheCropLen + params.hop_samples

\* C7 amended: a present spectrogram has time-length >= 1 and both padded
\* waveforms have hop_samples more samples than the waveform the extractor
\* saw: crop_len + hop_samples when the decoded waveform has at least crop_len
\* samples, its own length + hop_samples when it is shorter.
C7_PaddedLength ==
  \A i \in 1..Len(fetched) :
    LET f    == fetched[i]
        want == (IF f.n >= TheCropLen THEN TheCropLen ELSE f.n) + params.hop_samples
    IN  f.rec.spectrogram # <<>> =>
          /\ f.rec.spectrogram[1] >= 1
          /\ Len(f.rec.audio) = want
          /\ Len(f.rec.audio_cond_inst) = want

\* a waveform shorter than crop_len whose spectrogram is present
C7_Witness ==
  \E i \in 1..Len(fetched) :
    /\ fetched[i].n < TheCropLen
    /\ fetched[i].rec.spectrogram # <<>>
    /\ Len(fetched[i].rec.audio) = fetched[i].n + params.hop_samples

\* the latest access decoded a sample rate that is not the configured one
RateMismatch ==
  /\ loaded # <<>>
  /\ (loaded.sr1 # params.sample_rate \/ loaded.sr2 # params.sample_rate)

\* C8: an access that decodes a sample rate other than the configured one fails
\* with a ValueError naming both rates, before the assertions, and yields no
\* Transformed Example.
C8_InvalidRateIsFatal ==
  [][RateMismatch' =>
       /\ err' = "ValueError"
       /\ err_args' = <<loaded'.sr1, loaded'.sr2, params.sample_rate>>
       /\ pc' = "failed"
       /\ fetched' = fetched
       /\ minibatch' = minibatch
       /\ outcome' = "pending"]_vars

\* rates (22050, 22050) against 16000, on files whose shapes differ as well
C8_Witness ==
  /\ err = "ValueError"
  /\ params.sample_rate = 16000
  /\ err_args = <<22050, 22050, 16000>>
  /\ loaded.shape1 # loaded.shape2

\* ------------------------------------------------------------------ properties of the Pair Indexer
\* the pairs of the active regime
PairSet ==
  IF train_mixtures THEN {<<0, 3>>, <<3, 0>>}
  ELSE {<<0, 3>>, <<3, 0>>, <<1, 4>>, <<4, 1>>, <<2, 5>>, <<5, 2>>}

NumPairs == IF train_mixtures THEN 2 ELSE 6

\* the file of instrument tag t in the group of stem st under directory dir
GroupFile(dir, st, t) == dir \o <<"/">> \o st \o <<".", Digits[t + 1], ".", "w", "a", "v">>

ExampleOf(dir, st, pr) == <<GroupFile(dir, st, pr[1]), GroupFile(dir, st, pr[2])>>

\* the groups discovered by the scan, and where each is discovered first
GroupStems == {<<paths[i], disk[k].stem>> : i \in 1..Len(paths), k \in 1..Len(disk)}

FoundAt(g) ==
  {(i - 1) * Len(disk) + k : i \in {j \in 1..Len(paths) : paths[j] = g[1]},
                             k \in {j \in 1..Len(disk) : disk[j].stem = g[2]}}

FirstFound(g) == CHOOSE m \in FoundAt(g) : \A x \in FoundAt(g) : m <= x

ExamplesOf(g) ==
  {e \in 1..Len(filenames) : \E pr \in PairSet : filenames[e] = ExampleOf(g[1], g[2], pr)}

\* C3: a scan emits (#distinct group stems) x (#pairs of the regime) examples,
\* one per stem and pair however many files of the stem were found, the groups
\* in the order of their first occurrence.
C3_ScanCount ==
  (built = "yes" /\ files = <<>>) =>
    /\ Len(filenames) = Cardinality(GroupStems) * NumPairs
    /\ \A g \in GroupStems : \A pr \in PairSet :
         Cardinality({e \in 1..Len(filenames) : filenames[e] = ExampleOf(g[1], g[2], pr)}) = 1
    /\ \A g \in GroupStems : \A h \in GroupStems :
         FirstFound(g) < FirstFound(h) =>
           \A e \in ExamplesOf(g) : \A d \in ExamplesOf(h) : e < d

\* three files of two stems under one directory, six-pair regime: 12 examples
C3_Witness ==
  /\ built = "yes" /\ files = <<>>
  /\ ~train_mixtures
  /\ Len(paths) = 1 /\ Len(disk) = 3
  /\ disk[1].stem = disk[3].stem /\ disk[1].stem # disk[2].stem
  /\ Len(filenames) = 12

\* the non-empty lines of a list file, each by the positions of its first and
\* last character
LineSpans(text) ==
  {sp \in (1..Len(text)) \X (1..Len(text)) :
     /\ sp[1] <= sp[2]
     /\ \A c \in sp[1]..sp[2] : text[c] # "\n"
     /\ (sp[1] = 1 \/ text[sp[1] - 1] = "\n")
     /\ (sp[2] = Len(text) \/ text[sp[2] + 1] = "\n")}

RECURSIVE LinesBefore(_)
LinesBefore(k) == IF k <= 1 THEN 0 ELSE LinesBefore(k - 1) + Cardinality(LineSpans(files[k - 1]))

\* the examples of the k-th list file: the block after those of the files before it
BlockOf(k) == (NumPairs * LinesBefore(k) + 1)..(NumPairs * LinesBefore(k + 1))

\* C9: with list files given, lists of different lengths fail the index build
\* with no Training Example; lists of equal lengths are zipped positionally and
\* every non-empty line emits one example per pair of the regime.
C9_ListMode ==
  (built \in {"yes", "AssertionError"} /\ files # <<>>) =>
    IF Len(files) # Len(paths)
    THEN built = "AssertionError" /\ filenames = <<>>
    ELSE /\ built = "yes"
         /\ Len(filenames) = NumPairs * LinesBefore(Len(files) + 1)
         /\ \A k \in 1..Len(files) :
              /\ \A e \in BlockOf(k) :
                   \E sp \in LineSpans(files[k]) : \E pr \in PairSet :
                     filenames[e] = ExampleOf(paths[k], SubSeq(files[k], sp[1], sp[2]), pr)
              /\ \A sp \in LineSpans(files[k]) : \A pr \in PairSet :
                   \E e \in BlockOf(k) :
                     filenames[e] = ExampleOf(paths[k], SubSeq(files[k], sp[1], sp[2]), pr)

\* two directories with one list file that names a group
C9_Witness ==
  /\ built = "AssertionError"
  /\ Len(paths) = 2 /\ Len(files) = 1
  /\ LineSpans(files[1]) # {}
  /\ filenames = <<>>

\* ------------------------------------------------------------------ properties of the distributed pipelines
Ranks == DOMAIN delivered

IndexSet(rank) == {delivered[rank][k] : k \in 1..Len(delivered[rank])}

NoRepeatWithin(rank) ==
  \A a \in 1..Len(delivered[rank]) : \A b \in 1..Len(delivered[rank]) :
    delivered[rank][a] = delivered[rank][b] => a = b

\* C10 as stated: for every dataset size and participant count, no index is
\* delivered to two participants, and none twice to one participant.
C10_ShardsDisjoint ==
  /\ \A r1 \in Ranks : \A r2 \in Ranks : r1 # r2 => IndexSet(r1) \cap IndexSet(r2) = {}
  /\ \A r \in Ranks : NoRepeatWithin(r)

\* C10 amended: the index sets of the participants are pairwise disjoint when
\* the dataset size is a multiple of the participant count, and no index is
\* ever delivered twice to one participant.
C10_ShardsDisjointWhenDivisible ==
  /\ (dataset_len % num_replicas = 0) =>
       \A r1 \in Ranks : \A r2 \in Ranks : r1 # r2 => IndexSet(r1) \cap IndexSet(r2) = {}
  /\ \A r \in Ranks : NoRepeatWithin(r)

\* four examples read to the end by two participants, two indices each
C10_Witness ==
  /\ dataset_len = 4 /\ num_replicas = 2
  /\ Len(delivered[0]) = 2 /\ Len(delivered[1]) = 2
  /\ IndexSet(0) \cap IndexSet(1) = {}
  /\ IndexSet(0) \cup IndexSet(1) = 0..3

====
